---- MODULE Spec2Model ----
(***************************************************************************)
(* CommandType of dawn-model / twilight-model                              *)
(* (model/src/application/command/command_type.rs): an enum with three     *)
(* known variants and a public fallback variant Unknown(u8), converted to  *)
(* and from its u8 wire code by two From impls (used by serde through      *)
(* #[serde(from = "u8", into = "u8")]) and labelled by kind().             *)
(*                                                                         *)
(* The conversions are pure; the state machine below holds one wire code   *)
(* and one value and applies the conversions to them in alternation, the   *)
(* way a record is deserialized and serialized again.                      *)
(***************************************************************************)
EXTENDS Integers, Sequences, FiniteSets, TLC

VARIABLES
    pc,       \* which representation was produced last: "code" or "value"
    wire,     \* the u8 on the wire (NoCode before any exists)
    value,    \* the CommandType value held (NoValue before any exists)
    input,    \* the code first received from the wire (NoCode when the run starts from a value)
    start,    \* the first CommandType value of the run
    encodes,  \* number of u8::from(CommandType) calls so far
    cycles,   \* number of encode-then-decode round trips completed
    label,    \* result of the last kind() call, with the value it was called on
    other,    \* right-hand side of the last == comparison
    same      \* result of the last == comparison

vars == <<pc, wire, value, input, start, encodes, cycles, label, other, same>>

\* Number of encode steps explored in one run.
MaxCycles == 3

\* The range of the u8 type.
U8 == 0 .. 255

NoCode == -1
NoValue == [tag |-> "none"]
NoLabel == [of |-> NoValue, text |-> ""]

(***************************************************************************)
(* enum CommandType { ChatInput, User, Message, Unknown(u8) }              *)
(* Every variant is public, Unknown(n) included, for every u8 n.           *)
(***************************************************************************)
ChatInput == [tag |-> "ChatInput"]
User == [tag |-> "User"]
Message == [tag |-> "Message"]
Unknown(n) == [tag |-> "Unknown", n |-> n]

Known == {ChatInput, User, Message}
CommandType == Known \cup {Unknown(n) : n \in U8}

\* The wire codes of the known variants (the match arms of both From impls).
KnownCodes == {1, 2, 3}

(***************************************************************************)
(* impl From<u8> for CommandType                                           *)
(***************************************************************************)
\* Variant of the decoder with zero-based codes.
CommandType_from_zero_based(v) ==
    CASE v = 0 -> ChatInput
      [] v = 1 -> User
      [] v = 2 -> Message
      [] OTHER -> Unknown(v)

\* Variant of the decoder that keeps only the low seven bits of an unknown code.
CommandType_from_masked(v) ==
    CASE v = 1 -> ChatInput
      [] v = 2 -> User
      [] v = 3 -> Message
      [] OTHER -> Unknown(v % 128)

\* Variant of the decoder that rejects an unrecognised code (as a TryFrom would).
CommandType_from_strict(v) ==
    CASE v = 1 -> ChatInput
      [] v = 2 -> User
      [] v = 3 -> Message
      [] OTHER -> [tag |-> "Err", n |-> v]

CommandType_from(v) ==
    CASE v = 1 -> ChatInput
      [] v = 2 -> User
      [] v = 3 -> Message
      [] OTHER -> Unknown(v)

(***************************************************************************)
(* impl From<CommandType> for u8                                           *)
(***************************************************************************)
\* Variant of the encoder that drops the code an Unknown carries.
u8_from_lossy(v) ==
    CASE v = ChatInput -> 1
      [] v = User -> 2
      [] v = Message -> 3
      [] v.tag = "Unknown" -> 0

\* Variant of the encoder with two codes exchanged.
u8_from_swapped(v) ==
    CASE v = ChatInput -> 1
      [] v = User -> 3
      [] v = Message -> 2
      [] v.tag = "Unknown" -> v.n

u8_from(v) ==
    CASE v = ChatInput -> 1
      [] v = User -> 2
      [] v = Message -> 3
      [] v.tag = "Unknown" -> v.n

(***************************************************************************)
(* #[derive(PartialEq, Eq)]: same discriminant and, for Unknown, the same  *)
(* field.                                                                  *)
(***************************************************************************)
eq_by_code(a, b) == u8_from(a) = u8_from(b)

eq(a, b) ==
    IF a.tag # b.tag THEN FALSE
    ELSE IF a.tag = "Unknown" THEN a.n = b.n
    ELSE TRUE

(***************************************************************************)
(* CommandType::kind                                                       *)
(***************************************************************************)
\* Variant of kind that looks the label up through the wire code.
kind_by_code(self) ==
    CASE u8_from(self) = 1 -> "ChatInput"
      [] u8_from(self) = 2 -> "User"
      [] u8_from(self) = 3 -> "Message"
      [] OTHER -> "Unknown interaction type"

\* Variant of kind with a copied match arm.
kind_copied_arm(self) ==
    CASE self = ChatInput -> "ChatInput"
      [] self = User -> "User"
      [] self = Message -> "User"
      [] self.tag = "Unknown" -> "Unknown interaction type"

kind(self) ==
    CASE self = ChatInput -> "ChatInput"
      [] self = User -> "User"
      [] self = Message -> "Message"
      [] self.tag = "Unknown" -> "Unknown interaction type"

(***************************************************************************)
(* A run starts either with a code received from the wire or with a value  *)
(* constructed directly by application code.                               *)
(***************************************************************************)
Init ==
    /\ \/ /\ pc = "code"
          /\ wire \in U8
          /\ input = wire
          /\ value = NoValue
       \/ /\ pc = "value"
          /\ value \in CommandType
          /\ wire = NoCode
          /\ input = NoCode
    /\ start = value
    /\ encodes = 0
    /\ cycles = 0
    /\ label = NoLabel
    /\ other = NoValue
    /\ same = FALSE

\* Deserialize: the code on the wire is turned into a value.
Decode ==
    /\ pc = "code"
    /\ value' = CommandType_from(wire)
    /\ pc' = "value"
    /\ start' = IF start = NoValue THEN value' ELSE start
    /\ cycles' = IF encodes > 0 THEN cycles + 1 ELSE cycles
    /\ UNCHANGED <<wire, input, encodes, label, other, same>>

\* Serialize: the value held is turned into its code (the value is Copy and is kept).
Encode ==
    /\ pc = "value"
    /\ encodes < MaxCycles
    /\ wire' = u8_from(value)
    /\ pc' = "code"
    /\ encodes' = encodes + 1
    /\ UNCHANGED <<value, input, start, cycles, label, other, same>>

\* The label of the value held is looked up.
Kind ==
    /\ value # NoValue
    /\ label' = [of |-> value, text |-> kind(value)]
    /\ UNCHANGED <<pc, wire, value, input, start, encodes, cycles, other, same>>

\* The value held is compared, once in a run, with another value.
Compare ==
    /\ value # NoValue
    /\ other = NoValue
    /\ \E w \in CommandType :
          /\ other' = w
          /\ same' = eq(value, w)
    /\ UNCHANGED <<pc, wire, value, input, start, encodes, cycles, label>>

Next == Decode \/ Encode \/ Kind

Spec == Init /\ [][Next]_vars

NextEq == Decode \/ Compare

SpecEq == Init /\ [][NextEq]_vars

TypeOK ==
    /\ pc \in {"code", "value"}
    /\ wire \in U8 \cup {NoCode}
    /\ value \in CommandType \cup {NoValue}
    /\ encodes \in 0 .. MaxCycles
    /\ cycles \in 0 .. MaxCycles

\* The value held is the result of decoding the code on the wire.
Decoded == pc = "value" /\ wire # NoCode

\* The code on the wire is the result of encoding the value held.
Encoded == pc = "code" /\ value # NoValue

(***************************************************************************)
(* Properties                                                              *)
(***************************************************************************)

FallbackLabel == "Unknown interaction type"

\* C1: a code received from the wire, decoded and encoded again, is the
\* code that was received, for every u8.
C1_CodeRoundTrip ==
    (input # NoCode /\ Encoded) => wire = input

C1_Witness ==
    /\ input = 255
    /\ Encoded
    /\ value = Unknown(255)
    /\ wire = 255

\* C2: every CommandType value, decoded or directly constructed, encoded
\* and decoded again is the value the run started with.
C2_ValueRoundTrip ==
    (cycles >= 1 /\ pc = "value") => value = start

\* C2, restricted to what the code delivers: the round trip returns the
\* starting value when that value came out of the decoder.
C2_DecodedValueRoundTrip ==
    (input # NoCode /\ cycles >= 1 /\ pc = "value") => value = start

\* C3: no CommandType value in existence is an Unknown carrying the code
\* of a known variant (1, 2 or 3).
C3_FallbackExclusion ==
    (value # NoValue /\ value.tag = "Unknown") => value.n \notin KnownCodes

\* C3, restricted to what the code delivers: the decoder never produces an
\* Unknown carrying the code of a known variant.
C3_DecodedFallbackExclusion ==
    (Decoded /\ value.tag = "Unknown") => value.n \notin KnownCodes

\* C4: codes 1, 2, 3 decode to ChatInput, User, Message, these encode to
\* 1, 2, 3, and no other value decodes from or code encodes for them.
C4_KnownBijection ==
    /\ Decoded =>
          /\ wire = 1 <=> value = ChatInput
          /\ wire = 2 <=> value = User
          /\ wire = 3 <=> value = Message
    /\ Encoded =>
          /\ value = ChatInput => wire = 1
          /\ value = User => wire = 2
          /\ value = Message => wire = 3
          /\ \A k1, k2 \in Known :
                (value = k1 /\ k1 # k2) => wire # u8_from(k2)

C4_Witness ==
    /\ input = 3
    /\ Encoded
    /\ value = Message
    /\ wire = 3

\* C5: every code other than 1, 2, 3 (0 and 255 included) decodes to the
\* Unknown carrying exactly that code, and such an Unknown encodes to the
\* code it carries.
C5_UnknownVerbatim ==
    /\ (Decoded /\ wire \notin KnownCodes) => value = Unknown(wire)
    /\ (Encoded /\ value.tag = "Unknown" /\ value.n \notin KnownCodes) =>
          wire = value.n

C5_Witness ==
    /\ input = 0
    /\ Encoded
    /\ value = Unknown(0)
    /\ wire = 0
    /\ cycles = 1

\* C6: decoding yields a CommandType value for every u8 and encoding
\* yields a u8 for every CommandType value: neither has a failure result.
C6_NoFailurePath ==
    /\ Decoded => value \in CommandType
    /\ Encoded => wire \in U8

C6_Witness ==
    /\ input = 200
    /\ Decoded
    /\ value = Unknown(200)
    /\ encodes = 0

\* C7: two Unknown values are equal exactly when they carry the same code,
\* and an Unknown is never equal to a known variant, whatever it carries.
C7_StructuralEquality ==
    other # NoValue =>
       /\ (value.tag = "Unknown" /\ other.tag = "Unknown") =>
             (same <=> value.n = other.n)
       /\ (value.tag = "Unknown" /\ other \in Known) => ~same
       /\ (value \in Known /\ other.tag = "Unknown") => ~same

C7_Witness ==
    /\ value = Unknown(2)
    /\ other = User
    /\ ~same

\* C8: the label of an Unknown is "Unknown interaction type" whatever code
\* it carries, the codes of known variants included.
C8_FallbackLabelFixed ==
    (label # NoLabel /\ label.of.tag = "Unknown") => label.text = FallbackLabel

C8_Witness ==
    /\ label.of = Unknown(1)
    /\ label.text = FallbackLabel

\* C9: kind() gives every value a non-empty label: "ChatInput", "User",
\* "Message" for the known variants, the fallback label (different from
\* those three) for Unknown; a decoded code gets the known label exactly
\* when it is 1, 2 or 3.
C9_LabelTotal ==
    label # NoLabel =>
       /\ Len(label.text) > 0
       /\ label.of = ChatInput => label.text = "ChatInput"
       /\ label.of = User => label.text = "User"
       /\ label.of = Message => label.text = "Message"
       /\ label.of \in Known <=> label.text # FallbackLabel
       /\ (Decoded /\ label.of = value) =>
             (wire \in KnownCodes <=> label.text # FallbackLabel)

C9_Witness ==
    /\ Decoded
    /\ wire = 3
    /\ label.of = value
    /\ label.text = "Message"

\* C10: from any starting value, every later encoding is the encoding of
\* the starting value, and the value decoded after the first round trip
\* never changes afterwards.
C10_EncodeDecodeIdempotent ==
    /\ [](Encoded => wire = u8_from(start))
    /\ [][cycles >= 1 => value' = value]_vars

C10_Witness ==
    /\ start = Unknown(1)
    /\ value = ChatInput
    /\ cycles = 2
    /\ Encoded
    /\ wire = 1

====
